---- MODULE Spec2Model ----
(***************************************************************************)
(* Model of util/vm/build.py: the Mininet VM build script.                 *)
(*                                                                         *)
(* A pipeline is one sequential run of findBaseImage, build or             *)
(* bootAndRunTests.  Several pipelines share the image cache directory     *)
(* (VMImageDir) and the /dev/nbdN devices of the host.  Every external     *)
(* command started with run/srun may exit non-zero, in which case          *)
(* check_output raises and the pipeline ends with that exception.          *)
(***************************************************************************)
EXTENDS Integers, Sequences, FiniteSets, TLC

VARIABLES
    pc,        \* [Procs -> label]: the statement each pipeline executes next
    kind,      \* [Procs -> entry point]: "fbi", "build", "test" or "none"
    dir,       \* [Procs -> name of build's directory], "none" outside build
    err,       \* [Procs -> exception raised], "none" while running
    errAt,     \* [Procs -> label of the statement that raised]
    clock,     \* [Procs -> seconds spent in the current blocking wait]
    seen,      \* [Procs -> what findBaseImage's check found]
    image,     \* mode of <flavor>-base.qcow2: "absent", "0644" or "0444"
    iso,       \* mode of the installation media file
    isoGood,   \* TRUE when the media file holds an ISO image
    kernel,    \* mode of <flavor>-vmlinuz in VMImageDir
    initrd,    \* mode of <flavor>-initrd in VMImageDir
    inst,      \* [Procs -> installer process]: none, running, ok, failed
    holders,   \* [Slots -> set of owners of a qemu-nbd bound to /dev/nbdN]
    scan,      \* [Procs -> loop variable i of attachNBD]
    dev,       \* [Procs -> slot returned by attachNBD], NoDev if none
    detached,  \* slots that some detachNBD call has released (history)
    retry,     \* TRUE once attachNBD has bound a device after another
               \* pipeline's attachNBD had found none (history)
    tmp,       \* [Procs -> set of temporary directories that exist]
    mounted,   \* [Procs -> set of temporary directories with a mount]
    vm,        \* [Procs -> guest process spawned by boot]: none, running, exited
    con,       \* [Procs -> console transcript]: sends and expectation results
    tests,     \* [Procs -> test names requested with -t]
    branch,    \* [Procs -> TRUE when a Branch override is configured]
    upd,       \* [Procs -> how the branch update ended in the guest]:
               \* "none", "ok" or "failed"
    tidx,      \* [Procs -> position of runTests in its list of tests]
    coreN,     \* [Procs -> loop variable test of coreTest]
    report,    \* [Procs -> test outcomes logged so far]
    work,      \* [Procs -> files the pipeline has in its working directory]
    cap,       \* [Procs -> virtual capacity of the pipeline's overlay disk]
    size,      \* [Procs -> local variable size of build], 0 before it is set
    desc,      \* [Procs -> sizes written to the OVF descriptor], <<>> if none
    args,      \* the parsed command line: flavor, image and option flags
    mpc,       \* the statement parseArgs executes next
    floop,     \* position of the loop over args.flavor
    iloop,     \* position of the loop over args.image
    calls,     \* the build / bootAndRunTests calls parseArgs has made
    printed    \* what parseArgs has printed

ctl     == <<pc, err, errAt, clock>>
entry   == <<kind, dir>>
files   == <<image, iso, isoGood, kernel, initrd>>
nbdVars == <<holders, scan, dev, detached, retry>>
dirs    == <<tmp, mounted>>
guest   == <<vm, con, tests, branch, upd, tidx, coreN, report>>
out     == <<work, cap, size, desc>>
drv     == <<args, mpc, floop, iloop, calls, printed>>
vars    == <<pc, kind, dir, err, errAt, clock, seen, image, iso, isoGood,
             kernel, initrd, inst, holders, scan, dev, detached, retry, tmp,
             mounted, vm, con, tests, branch, upd, tidx, coreN, report, work,
             cap, size, desc, args, mpc, floop, iloop, calls, printed>>

Procs == {"p1", "p2"}

\* Number of /dev/nbdN slots attachNBD scans (range( 0, 63 ) in the source).
NumNBD == 2
Slots == 0 .. (NumNBD - 1)
NoDev == -1
Ext == "ext"     \* a process of the host that is no pipeline of this script

ReadOnly == "0444"
Writable == "0644"

----------------------------------------------------------------------------
(* Control helpers *)

Goto(p, l) ==
    /\ pc' = [pc EXCEPT ![p] = l]
    /\ clock' = [clock EXCEPT ![p] = 0]
    /\ UNCHANGED <<err, errAt>>

Raise(p, e) ==
    /\ pc' = [pc EXCEPT ![p] = "failed"]
    /\ err' = [err EXCEPT ![p] = e]
    /\ errAt' = [errAt EXCEPT ![p] = pc[p]]
    /\ clock' = [clock EXCEPT ![p] = 0]

\* run( cmd ) / srun( cmd ): the command succeeds and the pipeline goes on to
\* l, or it exits non-zero and check_output raises CalledProcessError.
Run(p, l) ==
    \/ Goto(p, l)
    \/ Raise(p, "SubprocessFailure")

\* Where extractKernel returns to: findBaseImage or bootAndRunTests.
AfterExtract(p) == IF kind[p] = "test" THEN "t_openlog" ELSE "fbi_return"

----------------------------------------------------------------------------
(* findBaseImage *)

\* Mutant of FBI_Check: the perms test is left out, so that any image that
\* exists is taken as complete.
FBI_Check_NoPerms(p) ==
    /\ pc[p] = "fbi_check"
    /\ seen' = [seen EXCEPT ![p] =
                  IF image = "absent" THEN "absent"
                  ELSE IF image # ReadOnly THEN "writable" ELSE "complete"]
    /\ IF image = "absent" THEN Goto(p, "fbi_mkdir") ELSE Goto(p, "ek_check")
    /\ UNCHANGED <<drv, entry, files, inst, nbdVars, dirs, guest, out>>

\* if path.exists( image ): perms check, raise when not 0444; else build it.
FBI_Check(p) ==
    /\ pc[p] = "fbi_check"
    /\ seen' = [seen EXCEPT ![p] =
                  IF image = "absent" THEN "absent"
                  ELSE IF image # ReadOnly THEN "writable" ELSE "complete"]
    /\ IF image = "absent" THEN Goto(p, "fbi_mkdir")
       ELSE IF image # ReadOnly THEN Raise(p, "ConcurrentBuildConflict")
       ELSE Goto(p, "ek_check")
    /\ UNCHANGED <<drv, entry, files, inst, nbdVars, dirs, guest, out>>

\* run( 'mkdir -p %s' % VMImageDir )
FBI_Mkdir(p) ==
    /\ pc[p] = "fbi_mkdir"
    /\ Run(p, "iso_check")
    /\ UNCHANGED <<drv, entry, seen, files, inst, nbdVars, dirs, guest, out>>

\* findiso: fetch when the file is missing or not write-protected.
ISO_Check(p) ==
    /\ pc[p] = "iso_check"
    /\ IF iso = "absent" \/ iso # ReadOnly
       THEN Goto(p, "iso_curl")
       ELSE Goto(p, "fbi_create")
    /\ UNCHANGED <<drv, entry, seen, files, inst, nbdVars, dirs, guest, out>>

\* run( 'curl -C - -o %s %s' % ( iso, url ) ): the download ends with an ISO
\* image or with other content; a failed curl may leave a partial file.
ISO_Curl(p) ==
    /\ pc[p] = "iso_curl"
    /\ \/ /\ Goto(p, "iso_file")
          /\ iso' = IF iso = "absent" THEN Writable ELSE iso
          /\ \E good \in BOOLEAN :
                isoGood' = IF iso = ReadOnly THEN isoGood ELSE good
       \/ /\ Raise(p, "SubprocessFailure")
          /\ \E partial \in BOOLEAN :
                /\ iso' = IF iso = "absent" /\ partial THEN Writable ELSE iso
                /\ isoGood' = IF iso = ReadOnly THEN isoGood ELSE FALSE
    /\ UNCHANGED <<drv, entry, seen, image, kernel, initrd, inst, nbdVars, dirs,
                   guest, out>>

\* if 'ISO' not in run( 'file ' + iso ): os.remove( iso ); raise
ISO_File(p) ==
    /\ pc[p] = "iso_file"
    /\ IF iso # "absent" /\ isoGood
       THEN Goto(p, "iso_chmod") /\ UNCHANGED <<iso, isoGood>>
       ELSE /\ Raise(p, "MediaFetchError")
            /\ iso' = "absent"
            /\ isoGood' = FALSE
    /\ UNCHANGED <<drv, entry, seen, image, kernel, initrd, inst, nbdVars, dirs,
                   guest, out>>

\* os.chmod( iso, 0444 )
ISO_Chmod(p) ==
    /\ pc[p] = "iso_chmod"
    /\ IF iso = "absent"
       THEN Raise(p, "OSError") /\ UNCHANGED iso
       ELSE Goto(p, "fbi_create") /\ iso' = ReadOnly
    /\ UNCHANGED <<drv, entry, seen, image, isoGood, kernel, initrd, inst, nbdVars,
                   dirs, guest, out>>

\* Mutant of FBI_Create: the image is removed and created anew, which gives
\* it the mode of a new file.
FBI_Create_Fresh(p) ==
    /\ pc[p] = "fbi_create"
    /\ \/ /\ Goto(p, "iu_floppy")
          /\ image' = Writable
       \/ /\ Raise(p, "SubprocessFailure")
          /\ UNCHANGED image
    /\ UNCHANGED <<drv, entry, seen, iso, isoGood, kernel, initrd, inst, nbdVars,
                   dirs, guest, out>>

\* run( 'qemu-img create -f qcow2 %s %s' % ( image, size ) ): creates the
\* file, or truncates the file that is there and keeps its mode.
FBI_Create(p) ==
    /\ pc[p] = "fbi_create"
    /\ \/ /\ Goto(p, "iu_floppy")
          /\ image' = IF image = "absent" THEN Writable ELSE image
       \/ /\ Raise(p, "SubprocessFailure")
          /\ UNCHANGED image
    /\ UNCHANGED <<drv, entry, seen, iso, isoGood, kernel, initrd, inst, nbdVars,
                   dirs, guest, out>>

----------------------------------------------------------------------------
(* installUbuntu *)

\* makeKickstartFloppy(): qemu-img create, mkfs, mcopy in the current directory
IU_Floppy(p) ==
    /\ pc[p] = "iu_floppy"
    /\ Run(p, "iu_mkdtemp")
    /\ UNCHANGED <<drv, entry, seen, files, inst, nbdVars, dirs, guest, out>>

\* mnt = mkdtemp()
IU_Mkdtemp(p) ==
    /\ pc[p] = "iu_mkdtemp"
    /\ Goto(p, "iu_mount")
    /\ tmp' = [tmp EXCEPT ![p] = @ \cup {"iso_mnt"}]
    /\ UNCHANGED <<drv, entry, seen, files, inst, nbdVars, mounted, guest, out>>

\* srun( 'mount %s %s' % ( iso, mnt ) )
IU_Mount(p) ==
    /\ pc[p] = "iu_mount"
    /\ \/ /\ Goto(p, "iu_popen")
          /\ mounted' = [mounted EXCEPT ![p] = @ \cup {"iso_mnt"}]
       \/ /\ Raise(p, "SubprocessFailure")
          /\ UNCHANGED mounted
    /\ UNCHANGED <<drv, entry, seen, files, inst, nbdVars, tmp, guest, out>>

\* vm = Popen( cmd, **params ): the installer starts writing to the image
IU_Popen(p) ==
    /\ pc[p] = "iu_popen"
    /\ Goto(p, "iu_wait")
    /\ inst' = [inst EXCEPT ![p] = "running"]
    /\ UNCHANGED <<drv, entry, seen, files, nbdVars, dirs, guest, out>>

\* Mutant of IU_Wait: the return code is looked at as soon as the installer
\* has exited, before the media is unmounted.
IU_Wait_RaiseFirst(p) ==
    /\ pc[p] = "iu_wait"
    /\ \E status \in {"ok", "failed"} :
          /\ inst' = [inst EXCEPT ![p] = status]
          /\ IF status = "failed" THEN Raise(p, "InstallFailed")
             ELSE Goto(p, "iu_umount")
    /\ UNCHANGED <<drv, entry, seen, files, nbdVars, dirs, guest, out>>

\* vm.wait(): returns when the installer exits, with status zero or not
IU_Wait(p) ==
    /\ pc[p] = "iu_wait"
    /\ Goto(p, "iu_umount")
    /\ \E status \in {"ok", "failed"} : inst' = [inst EXCEPT ![p] = status]
    /\ UNCHANGED <<drv, entry, seen, files, nbdVars, dirs, guest, out>>

\* srun( 'umount ' + mnt )
IU_Umount(p) ==
    /\ pc[p] = "iu_umount"
    /\ \/ /\ Goto(p, "iu_rmdir")
          /\ mounted' = [mounted EXCEPT ![p] = @ \ {"iso_mnt"}]
       \/ /\ Raise(p, "SubprocessFailure")
          /\ UNCHANGED mounted
    /\ UNCHANGED <<drv, entry, seen, files, inst, nbdVars, tmp, guest, out>>

\* run( 'rmdir ' + mnt )
IU_Rmdir(p) ==
    /\ pc[p] = "iu_rmdir"
    /\ \/ /\ Goto(p, "iu_result")
          /\ tmp' = [tmp EXCEPT ![p] = @ \ {"iso_mnt"}]
       \/ /\ Raise(p, "SubprocessFailure")
          /\ UNCHANGED tmp
    /\ UNCHANGED <<drv, entry, seen, files, inst, nbdVars, mounted, guest, out>>

\* if vm.returncode != 0: raise Exception( 'Ubuntu installation returned ...' )
IU_Result(p) ==
    /\ pc[p] = "iu_result"
    /\ IF inst[p] = "failed"
       THEN Raise(p, "InstallFailed")
       ELSE Goto(p, "fbi_chmod")
    /\ UNCHANGED <<drv, entry, seen, files, inst, nbdVars, dirs, guest, out>>

\* os.chmod( image, 0444 ): write-protect the image, signalling completion
FBI_Chmod(p) ==
    /\ pc[p] = "fbi_chmod"
    /\ Goto(p, "ek_check")
    /\ image' = ReadOnly
    /\ UNCHANGED <<drv, entry, seen, iso, isoGood, kernel, initrd, inst, nbdVars,
                   dirs, guest, out>>
----------------------------------------------------------------------------
(* attachNBD, detachNBD *)

\* Mutant of NBD_Probe: the result of the probe is not looked at (no
\* continue), so the first slot of the range is taken.
NBD_Probe_NoSkip(p) ==
    /\ pc[p] = "nbd_probe"
    /\ IF scan[p] = NumNBD
       THEN Raise(p, "NoDeviceAvailable") /\ UNCHANGED scan
       ELSE Goto(p, "nbd_modprobe") /\ UNCHANGED scan
    /\ UNCHANGED <<drv, entry, seen, files, inst, holders, dev, detached, retry,
                   dirs, guest, out>>

\* Mutant of NBD_Probe: when the loop falls through, the last slot of the
\* range is taken instead of raising.
NBD_Probe_LastResort(p) ==
    /\ pc[p] = "nbd_probe"
    /\ IF scan[p] = NumNBD
       THEN Goto(p, "nbd_modprobe") /\ scan' = [scan EXCEPT ![p] = NumNBD - 1]
       ELSE IF holders[scan[p]] # {}
       THEN Goto(p, "nbd_probe") /\ scan' = [scan EXCEPT ![p] = @ + 1]
       ELSE Goto(p, "nbd_modprobe") /\ UNCHANGED scan
    /\ UNCHANGED <<drv, entry, seen, files, inst, holders, dev, detached, retry,
                   dirs, guest, out>>

\* for i in range( 0, 63 ): if call( [ 'pgrep', '-f', nbd ] ) == 0: continue
\* The probe finds a slot in use when some qemu-nbd process is bound to it.
\* Falling out of the loop raises "could not find unused /dev/nbdX device".
NBD_Probe(p) ==
    /\ pc[p] = "nbd_probe"
    /\ IF scan[p] = NumNBD
       THEN Raise(p, "NoDeviceAvailable") /\ UNCHANGED scan
       ELSE IF holders[scan[p]] # {}
       THEN Goto(p, "nbd_probe") /\ scan' = [scan EXCEPT ![p] = @ + 1]
       ELSE Goto(p, "nbd_modprobe") /\ UNCHANGED scan
    /\ UNCHANGED <<drv, entry, seen, files, inst, holders, dev, detached, retry,
                   dirs, guest, out>>

\* srun( 'modprobe nbd max-part=64' )
NBD_Modprobe(p) ==
    /\ pc[p] = "nbd_modprobe"
    /\ Run(p, "nbd_bind")
    /\ UNCHANGED <<drv, entry, seen, files, inst, nbdVars, dirs, guest, out>>

\* The last attachNBD call of q found every slot in use and raised.
Refused(q) == pc[q] = "failed" /\ err[q] = "NoDeviceAvailable"

\* Mutant of NBD_Bind: the exit status of qemu-nbd is not checked (call in
\* place of check_output), so nbd is returned although the bind failed.
NBD_Bind_Unchecked(p) ==
    /\ pc[p] = "nbd_bind"
    /\ Goto(p, "ek_partx")
    /\ holders' = [holders EXCEPT ![scan[p]] = @ \cup {p}]
    /\ dev' = [dev EXCEPT ![p] = scan[p]]
    /\ retry' = (retry \/ \E q \in Procs : Refused(q))
    /\ UNCHANGED <<drv, entry, seen, files, inst, scan, detached, dirs, guest, out>>

\* srun( 'qemu-nbd %s -c %s %s' % ( flags, nbd, cow ) ); return nbd
\* qemu-nbd exits non-zero when the device is already connected (the kernel
\* refuses a second socket), and then srun raises instead of returning nbd.
NBD_Bind(p) ==
    /\ pc[p] = "nbd_bind"
    /\ \/ /\ holders[scan[p]] = {}
          /\ Goto(p, "ek_partx")
          /\ holders' = [holders EXCEPT ![scan[p]] = {p}]
          /\ dev' = [dev EXCEPT ![p] = scan[p]]
          /\ retry' = (retry \/ \E q \in Procs : Refused(q))
       \/ /\ Raise(p, "SubprocessFailure")
          /\ UNCHANGED <<holders, dev, retry>>
    /\ UNCHANGED <<drv, entry, seen, files, inst, scan, detached, dirs, guest, out>>

\* detachNBD( nbd ): srun( 'qemu-nbd -d ' + nbd ) disconnects the device
EK_Detach(p) ==
    /\ pc[p] = "ek_detach"
    /\ \/ /\ Goto(p, AfterExtract(p))
          /\ holders' = [holders EXCEPT ![dev[p]] = {}]
          /\ detached' = detached \cup {dev[p]}
          /\ dev' = [dev EXCEPT ![p] = NoDev]
       \/ /\ Raise(p, "SubprocessFailure")
          /\ UNCHANGED <<holders, dev, detached>>
    /\ UNCHANGED <<drv, entry, seen, files, inst, scan, retry, dirs, guest, out>>

\* Another process of the host binds a free device.
ExtAttach(i) ==
    /\ holders[i] = {}
    /\ holders' = [holders EXCEPT ![i] = {Ext}]
    /\ UNCHANGED <<ctl, drv, entry, seen, files, inst, scan, dev, detached, retry,
                   dirs, guest, out>>

\* Another process of the host releases the device it had bound.
ExtDetach(i) ==
    /\ Ext \in holders[i]
    /\ holders' = [holders EXCEPT ![i] = @ \ {Ext}]
    /\ UNCHANGED <<ctl, drv, entry, seen, files, inst, scan, dev, detached, retry,
                   dirs, guest, out>>

----------------------------------------------------------------------------
(* extractKernel *)

\* cp / chmod of extractKernel write VMImageDir when called by findBaseImage
\* and the private tmpdir when called by bootAndRunTests.
Shared(p) == kind[p] # "test"

\* if path.exists( kernel ) and ( stat( image )[ ST_MODE ] & 0777 ) == 0444:
\*     return kernel, initrd
EK_Check(p) ==
    /\ pc[p] = "ek_check"
    /\ IF Shared(p) /\ kernel # "absent" /\ image = ReadOnly
       THEN Goto(p, AfterExtract(p)) /\ UNCHANGED scan
       ELSE Goto(p, "nbd_probe") /\ scan' = [scan EXCEPT ![p] = 0]
    /\ UNCHANGED <<drv, entry, seen, files, inst, holders, dev, detached, retry,
                   dirs, guest, out>>

\* print srun( 'partx ' + nbd )
EK_Partx(p) ==
    /\ pc[p] = "ek_partx"
    /\ Run(p, "ek_mkdtemp")
    /\ UNCHANGED <<drv, entry, seen, files, inst, nbdVars, dirs, guest, out>>

\* mnt = mkdtemp()
EK_Mkdtemp(p) ==
    /\ pc[p] = "ek_mkdtemp"
    /\ Goto(p, "ek_mount")
    /\ tmp' = [tmp EXCEPT ![p] = @ \cup {"part_mnt"}]
    /\ UNCHANGED <<drv, entry, seen, files, inst, nbdVars, mounted, guest, out>>

\* srun( 'mount -o ro %s %s' % ( part, mnt  ) )
EK_Mount(p) ==
    /\ pc[p] = "ek_mount"
    /\ \/ /\ Goto(p, "ek_glob")
          /\ mounted' = [mounted EXCEPT ![p] = @ \cup {"part_mnt"}]
       \/ /\ Raise(p, "SubprocessFailure")
          /\ UNCHANGED mounted
    /\ UNCHANGED <<drv, entry, seen, files, inst, nbdVars, tmp, guest, out>>

\* kernsrc = glob( ... )[ 0 ]; initrdsrc = glob( ... )[ 0 ]
EK_Glob(p) ==
    /\ pc[p] = "ek_glob"
    /\ \/ Goto(p, "ek_cp_initrd")
       \/ Raise(p, "IndexError")
    /\ UNCHANGED <<drv, entry, seen, files, inst, nbdVars, dirs, guest, out>>

\* srun( 'cp %s %s' % ( initrdsrc, initrd ) ): a failed cp may leave a part
EK_CpInitrd(p) ==
    /\ pc[p] = "ek_cp_initrd"
    /\ \/ /\ Goto(p, "ek_chmod_initrd")
          /\ initrd' = IF Shared(p) /\ initrd = "absent" THEN Writable
                       ELSE initrd
       \/ /\ Raise(p, "SubprocessFailure")
          /\ \E part \in BOOLEAN :
                initrd' = IF Shared(p) /\ initrd = "absent" /\ part
                          THEN Writable ELSE initrd
    /\ UNCHANGED <<drv, entry, seen, image, iso, isoGood, kernel, inst, nbdVars,
                   dirs, guest, out>>

\* srun( 'chmod 0444 ' + initrd )
EK_ChmodInitrd(p) ==
    /\ pc[p] = "ek_chmod_initrd"
    /\ \/ /\ Goto(p, "ek_cp_kernel")
          /\ initrd' = IF Shared(p) /\ initrd # "absent" THEN ReadOnly
                       ELSE initrd
       \/ /\ Raise(p, "SubprocessFailure")
          /\ UNCHANGED initrd
    /\ UNCHANGED <<drv, entry, seen, image, iso, isoGood, kernel, inst, nbdVars,
                   dirs, guest, out>>

\* srun( 'cp %s %s' % ( kernsrc, kernel ) )
EK_CpKernel(p) ==
    /\ pc[p] = "ek_cp_kernel"
    /\ \/ /\ Goto(p, "ek_chmod_kernel")
          /\ kernel' = IF Shared(p) /\ kernel = "absent" THEN Writable
                       ELSE kernel
       \/ /\ Raise(p, "SubprocessFailure")
          /\ \E part \in BOOLEAN :
                kernel' = IF Shared(p) /\ kernel = "absent" /\ part
                          THEN Writable ELSE kernel
    /\ UNCHANGED <<drv, entry, seen, image, iso, isoGood, initrd, inst, nbdVars,
                   dirs, guest, out>>

\* srun( 'chmod 0444 ' + kernel )
EK_ChmodKernel(p) ==
    /\ pc[p] = "ek_chmod_kernel"
    /\ \/ /\ Goto(p, "ek_umount")
          /\ kernel' = IF Shared(p) /\ kernel # "absent" THEN ReadOnly
                       ELSE kernel
       \/ /\ Raise(p, "SubprocessFailure")
          /\ UNCHANGED kernel
    /\ UNCHANGED <<drv, entry, seen, image, iso, isoGood, initrd, inst, nbdVars,
                   dirs, guest, out>>

\* srun( 'umount ' + mnt )
EK_Umount(p) ==
    /\ pc[p] = "ek_umount"
    /\ \/ /\ Goto(p, "ek_rmdir")
          /\ mounted' = [mounted EXCEPT ![p] = @ \ {"part_mnt"}]
       \/ /\ Raise(p, "SubprocessFailure")
          /\ UNCHANGED mounted
    /\ UNCHANGED <<drv, entry, seen, files, inst, nbdVars, tmp, guest, out>>

\* run( 'rmdir ' + mnt )
EK_Rmdir(p) ==
    /\ pc[p] = "ek_rmdir"
    /\ \/ /\ Goto(p, "ek_detach")
          /\ tmp' = [tmp EXCEPT ![p] = @ \ {"part_mnt"}]
       \/ /\ Raise(p, "SubprocessFailure")
          /\ UNCHANGED tmp
    /\ UNCHANGED <<drv, entry, seen, files, inst, nbdVars, mounted, guest, out>>

\* return image, kernel, initrd
FBI_Return(p) ==
    /\ pc[p] = "fbi_return"
    /\ IF kind[p] = "build" THEN Goto(p, "b_overlay") ELSE Goto(p, "done")
    /\ UNCHANGED <<drv, entry, seen, files, inst, nbdVars, dirs, guest, out>>

\* A pipeline calls findBaseImage( flavor ): the first call, or the next one
\* after an earlier call of the same pipeline has returned or raised.  The
\* local variables start afresh (tmp and mounted are the directories of the
\* current call); a device a failed call left bound stays bound.
FBI_Call(p) ==
    /\ kind[p] = "fbi"
    /\ pc[p] \in {"idle", "done", "failed"}
    /\ pc' = [pc EXCEPT ![p] = "fbi_check"]
    /\ err' = [err EXCEPT ![p] = "none"]
    /\ errAt' = [errAt EXCEPT ![p] = "none"]
    /\ seen' = [seen EXCEPT ![p] = "none"]
    /\ inst' = [inst EXCEPT ![p] = "none"]
    /\ scan' = [scan EXCEPT ![p] = 0]
    /\ dev' = [dev EXCEPT ![p] = NoDev]
    /\ tmp' = [tmp EXCEPT ![p] = {}]
    /\ mounted' = [mounted EXCEPT ![p] = {}]
    /\ UNCHANGED <<clock, drv, entry, files, holders, detached, retry, guest, out>>

----------------------------------------------------------------------------
(* Image store: concurrent findBaseImage calls *)

\* What the cache directory can hold before a call: nothing, the image of a
\* build that crashed or still runs, or a complete image with or without the
\* extracted kernel and initrd.
CacheStates ==
    { <<"absent", "absent", "absent">>,
      <<Writable, "absent", "absent">>,
      <<ReadOnly, "absent", "absent">>,
      <<ReadOnly, ReadOnly, ReadOnly>> }

InitCommon ==
    /\ err = [p \in Procs |-> "none"]
    /\ errAt = [p \in Procs |-> "none"]
    /\ clock = [p \in Procs |-> 0]
    /\ seen = [p \in Procs |-> "none"]
    /\ \E c \in CacheStates : image = c[1] /\ initrd = c[2] /\ kernel = c[3]
    /\ iso \in {"absent", ReadOnly}
    /\ isoGood = (iso = ReadOnly)
    /\ inst = [p \in Procs |-> "none"]
    /\ holders \in [Slots -> {{}, {Ext}}]
    /\ scan = [p \in Procs |-> 0]
    /\ dev = [p \in Procs |-> NoDev]
    /\ detached = {}
    /\ retry = FALSE
    /\ tmp = [p \in Procs |-> {}]
    /\ mounted = [p \in Procs |-> {}]
    /\ vm = [p \in Procs |-> "none"]
    /\ upd = [p \in Procs |-> "none"]
    /\ con = [p \in Procs |-> <<>>]
    /\ tidx = [p \in Procs |-> 0]
    /\ coreN = [p \in Procs |-> 0]
    /\ report = [p \in Procs |-> <<>>]
    /\ work = [p \in Procs |-> {}]
    /\ cap = [p \in Procs |-> 0]
    /\ size = [p \in Procs |-> 0]
    /\ desc = [p \in Procs |-> <<>>]

\* parseArgs has not been entered: the calls are followed on their own.
DrvIdle ==
    /\ args = [flavor |-> <<>>, image |-> <<>>, list |-> FALSE,
               depend |-> FALSE, clean |-> FALSE]
    /\ mpc = "idle"
    /\ floop = 0
    /\ iloop = 0
    /\ calls = <<>>
    /\ printed = <<>>

Init ==
    /\ InitCommon
    /\ DrvIdle
    /\ tests = [p \in Procs |-> <<>>]
    /\ branch = [p \in Procs |-> FALSE]
    /\ pc = [p \in Procs |-> "idle"]
    /\ kind = [p \in Procs |-> "fbi"]
    /\ dir = [p \in Procs |-> "none"]

StoreStep(p) ==
    \/ FBI_Check(p) \/ FBI_Mkdir(p)
    \/ ISO_Check(p) \/ ISO_Curl(p) \/ ISO_File(p) \/ ISO_Chmod(p)
    \/ FBI_Create(p)
    \/ IU_Floppy(p) \/ IU_Mkdtemp(p) \/ IU_Mount(p) \/ IU_Popen(p)
    \/ IU_Wait(p) \/ IU_Umount(p) \/ IU_Rmdir(p) \/ IU_Result(p)
    \/ FBI_Chmod(p)
    \/ EK_Check(p)
    \/ NBD_Probe(p) \/ NBD_Modprobe(p) \/ NBD_Bind(p)
    \/ EK_Partx(p) \/ EK_Mkdtemp(p) \/ EK_Mount(p) \/ EK_Glob(p)
    \/ EK_CpInitrd(p) \/ EK_ChmodInitrd(p) \/ EK_CpKernel(p)
    \/ EK_ChmodKernel(p) \/ EK_Umount(p) \/ EK_Rmdir(p) \/ EK_Detach(p)
    \/ FBI_Return(p)

\* The host's other users of the devices.  What they do between two scans
\* is seen by no pipeline, so their steps are taken while a scan is under way.
Scanning(p) == pc[p] \in {"nbd_probe", "nbd_modprobe", "nbd_bind"}

HostStep ==
    /\ \E p \in Procs : Scanning(p)
    /\ \E i \in Slots : ExtAttach(i) \/ ExtDetach(i)

StoreNext ==
    \/ \E p \in Procs : FBI_Call(p) \/ StoreStep(p)
    \/ HostStep

Spec == Init /\ [][StoreNext]_vars
----------------------------------------------------------------------------
(* Console session: boot, sendline, expect, readline *)

Prompt == "$ "         \* Prompt = '\$ ', the shell prompt pexpect waits for

TIMEOUT == 600         \* default timeout of every expect and readline
SanityTimeout == 45    \* sanityTest: timeout=45
CoreTimeout == 180     \* coreTest: timeout=180
ScriptTimeout == 3600  \* interact: timeout=3600 for the install script
NoTimeout == -1        \* Popen.wait() and spawn.wait() take no timeout

\* How long a wait without timeout is followed in the model.
Horizon == 3601

\* Blocking waits that have no timeout.
UnboundedWaits == {"iu_wait", "t_wait"}

\* Console waits: expect, readline and read of the pexpect object.
ConsoleWaits ==
    {"login_expect", "login_pw_expect", "i_prompt1", "i_prompt2",
     "i_prompt3", "i_sudo_expect", "i_done_expect", "i_prompt4", "v_echo",
     "v_line", "i_prompt5", "i_read", "rt_prompt", "s_expect", "c_prompt1",
     "c_prompt2", "c_expect", "eq_prompt", "ef_prompt", "cb_prompt",
     "t_prompt1", "t_prompt2", "t_prompt3"}

WaitTimeout(l) ==
    IF l \in UnboundedWaits THEN NoTimeout
    ELSE IF l = "s_expect" THEN SanityTimeout
    ELSE IF l = "c_expect" THEN CoreTimeout
    ELSE IF l = "i_done_expect" THEN ScriptTimeout
    ELSE TIMEOUT

Sent(text) == [t |-> "send", s |-> text]
Matched(pat) == [t |-> "match", s |-> pat]
TimedOut(pat) == [t |-> "timeout", s |-> pat]
Line(what) == [t |-> "line", s |-> what]

Logged(p, e) == con' = [con EXCEPT ![p] = Append(@, e)]

\* Variables no console step changes.
Host == <<drv, entry, seen, files, inst, nbdVars, dirs, out>>
Conf == <<tests, branch, upd>>

\* vm.sendline( text )
SendLine(p, l, text, next) ==
    /\ pc[p] = l
    /\ Goto(p, next)
    /\ Logged(p, Sent(text))
    /\ UNCHANGED vm

\* vm.expect( pat ): the pattern shows up before the timeout, or pexpect
\* raises TIMEOUT at the timeout, or the guest process ends and it raises EOF.
Expect(p, l, pat, next) ==
    /\ pc[p] = l
    /\ \/ /\ vm[p] = "running"
          /\ clock[p] < WaitTimeout(l)
          /\ Goto(p, next)
          /\ Logged(p, Matched(pat))
          /\ UNCHANGED vm
       \/ /\ clock[p] = WaitTimeout(l)
          /\ Raise(p, "TIMEOUT")
          /\ UNCHANGED <<con, vm>>
       \/ /\ Raise(p, "EOF")
          /\ vm' = [vm EXCEPT ![p] = "exited"]
          /\ UNCHANGED con

\* vm.readline(): a line, or what is left at end of stream (no exception),
\* or TIMEOUT
ReadLine(p, l, what, next) ==
    /\ pc[p] = l
    /\ \/ /\ vm[p] = "running"
          /\ clock[p] < WaitTimeout(l)
          /\ Goto(p, next)
          /\ Logged(p, Line(what))
          /\ UNCHANGED vm
       \/ /\ clock[p] = WaitTimeout(l)
          /\ Raise(p, "TIMEOUT")
          /\ UNCHANGED <<con, vm>>
       \/ /\ Goto(p, next)
          /\ vm' = [vm EXCEPT ![p] = "exited"]
          /\ Logged(p, Line("eof"))

\* Time passes in a blocking wait while what it waits for does not happen:
\* up to the timeout of the wait, or without limit when it has none.
TimePasses(p) ==
    /\ pc[p] \in ConsoleWaits \cup UnboundedWaits
    /\ clock[p] = 0
    /\ clock' = [clock EXCEPT ![p] =
                    IF WaitTimeout(pc[p]) = NoTimeout THEN Horizon
                    ELSE WaitTimeout(pc[p])]
    /\ UNCHANGED <<pc, err, errAt, drv, entry, seen, files, inst, nbdVars, dirs,
                   guest, out>>

\* boot: archFor( kernel ) exits when the kernel path names no architecture
\* (the path comes from the image name in bootAndRunTests); pexpect.spawn
\* starts the guest.
Boot(p) ==
    /\ pc[p] = "boot"
    /\ \/ /\ Goto(p, "login_expect")
          /\ vm' = [vm EXCEPT ![p] = "running"]
       \/ /\ kind[p] = "test"
          /\ Raise(p, "SystemExit")
          /\ UNCHANGED vm
    /\ UNCHANGED <<Host, Conf, con, tidx, coreN, report>>

\* Mutant of Login: the user name is sent as soon as the guest is spawned,
\* and the login prompt is awaited afterwards.
Login_SendFirst(p) ==
    /\ \/ SendLine(p, "login_expect", "mininet", "login_user")
       \/ Expect(p, "login_user", "login: ", "login_pw_expect")
       \/ Expect(p, "login_pw_expect", "Password: ", "login_pw")
       \/ SendLine(p, "login_pw", "mininet",
                   IF kind[p] = "test" THEN "t_prompt1" ELSE "i_prompt1")
    /\ UNCHANGED <<Host, Conf, tidx, coreN, report>>

\* login( vm )
Login(p) ==
    /\ \/ Expect(p, "login_expect", "login: ", "login_user")
       \/ SendLine(p, "login_user", "mininet", "login_pw_expect")
       \/ Expect(p, "login_pw_expect", "Password: ", "login_pw")
       \/ SendLine(p, "login_pw", "mininet",
                   IF kind[p] = "test" THEN "t_prompt1" ELSE "i_prompt1")
    /\ UNCHANGED <<Host, Conf, tidx, coreN, report>>

----------------------------------------------------------------------------
(* Interaction protocol *)

CmdHostname == "hostname"
CmdWget == "wget install-mininet-vm.sh"
CmdInstall == "bash install-mininet-vm.sh"
CmdVersion == "~/mininet/bin/mn --version"
CmdSanity == "sudo mn --test pingall"
CmdCgroupLite == "sudo service cgroup-lite restart"
CmdCgroupsMount == "sudo cgroups-mount"
CmdMakeTest == "cd ~/mininet; sudo make test"
CmdPexpect == "sudo apt-get install python-pexpect"
CmdQuick == "sudo python ~/mininet/examples/test/runner.py -v -quick"
CmdFull == "sudo python ~/mininet/examples/test/runner.py -v"
CmdCheckout == "cd ~/mininet; git fetch; git pull --rebase; git checkout"
CmdMakeInstall == "sudo make install"
CmdShutdown == "sync; sudo shutdown -h now"
CmdShutdownTest == "sudo shutdown -h now "

\* interact( vm ) up to the call of runTests
InteractInstall(p) ==
    /\ \/ Expect(p, "i_prompt1", Prompt, "i_hostname")
       \/ SendLine(p, "i_hostname", CmdHostname, "i_prompt2")
       \/ Expect(p, "i_prompt2", Prompt, "i_wget")
       \/ SendLine(p, "i_wget", CmdWget, "i_prompt3")
       \/ Expect(p, "i_prompt3", Prompt, "i_bash")
       \/ SendLine(p, "i_bash", CmdInstall, "i_sudo_expect")
       \/ Expect(p, "i_sudo_expect", "password for mininet: ", "i_sudo_pw")
       \/ SendLine(p, "i_sudo_pw", "mininet", "i_done_expect")
       \/ Expect(p, "i_done_expect", "Done preparing Mininet", "i_prompt4")
       \/ Expect(p, "i_prompt4", Prompt, "v_send")
       \/ Expect(p, "i_prompt5", Prompt, "rt_start")
    /\ UNCHANGED <<Host, Conf, tidx, coreN, report>>

\* getMininetVersion( vm ): send the command, eat its echo, read one line
GetMininetVersion(p) ==
    /\ \/ SendLine(p, "v_send", CmdVersion, "v_echo")
       \/ ReadLine(p, "v_echo", "echo", "v_line")
       \/ ReadLine(p, "v_line", "version", "i_prompt5")
    /\ UNCHANGED <<Host, Conf, tidx, coreN, report>>

\* Mutant of InteractShutdown: vm.read() is left out, so interact returns
\* as soon as the shutdown command is sent.
InteractShutdown_NoRead(p) ==
    /\ SendLine(p, "i_shutdown", CmdShutdown, "b_size")
    /\ UNCHANGED <<Host, Conf, tidx, coreN, report>>

\* interact( vm ) after runTests: shut down and read up to end of stream
InteractShutdown(p) ==
    /\ \/ /\ SendLine(p, "i_shutdown", CmdShutdown, "i_read")
       \/ /\ pc[p] = "i_read"
          /\ \/ /\ Goto(p, "b_size")
                /\ vm' = [vm EXCEPT ![p] = "exited"]
                /\ Logged(p, Matched("EOF"))
             \/ /\ clock[p] = WaitTimeout("i_read")
                /\ Raise(p, "TIMEOUT")
                /\ UNCHANGED <<con, vm>>
    /\ UNCHANGED <<Host, Conf, tidx, coreN, report>>

----------------------------------------------------------------------------
(* runTests and the tests of testDict() *)

\* testDict(): the functions of the module whose name ends with Test
Registry == {"sanity", "core", "examplesquick", "examplesfull"}

\* if not tests: tests = [ 'sanity', 'core' ]
Requested(p) == IF tests[p] = <<>> THEN <<"sanity", "core">> ELSE tests[p]

\* First statement of the function testfns[ test ]
EntryOf(test) ==
    IF test = "sanity" THEN "s_send"
    ELSE IF test = "core" THEN "c_send1"
    ELSE IF test = "examplesquick" THEN "eq_send1"
    ELSE "ef_send1"

\* Where runTests returns to: interact or bootAndRunTests.
AfterTests(p) == IF kind[p] = "test" THEN "t_shutdown" ELSE "i_shutdown"

\* Mutant of RunTests: the loop is left after the first test.
RunTests_FirstOnly(p) ==
    /\ \/ /\ pc[p] = "rt_start"
          /\ Goto(p, "rt_loop")
          /\ tidx' = [tidx EXCEPT ![p] = 1]
          /\ UNCHANGED <<vm, con>>
       \/ /\ pc[p] = "rt_loop"
          /\ IF tidx[p] > 1 THEN Goto(p, AfterTests(p))
             ELSE IF Requested(p)[tidx[p]] \notin Registry
             THEN Raise(p, "UnknownTest")
             ELSE Goto(p, EntryOf(Requested(p)[tidx[p]]))
          /\ UNCHANGED <<vm, con, tidx>>
       \/ /\ Expect(p, "rt_prompt", Prompt, "rt_loop")
          /\ tidx' = [tidx EXCEPT ![p] = @ + 1]
    /\ UNCHANGED <<Host, Conf, coreN, report>>

\* Mutant of RunTests: a name that is not in testfns is passed over
\* (continue) instead of raising.
RunTests_SkipUnknown(p) ==
    /\ \/ /\ pc[p] = "rt_start"
          /\ Goto(p, "rt_loop")
          /\ tidx' = [tidx EXCEPT ![p] = 1]
          /\ UNCHANGED <<vm, con>>
       \/ /\ pc[p] = "rt_loop"
          /\ IF tidx[p] > Len(Requested(p))
             THEN Goto(p, AfterTests(p)) /\ UNCHANGED tidx
             ELSE IF Requested(p)[tidx[p]] \notin Registry
             THEN Goto(p, "rt_loop") /\ tidx' = [tidx EXCEPT ![p] = @ + 1]
             ELSE Goto(p, EntryOf(Requested(p)[tidx[p]])) /\ UNCHANGED tidx
          /\ UNCHANGED <<vm, con>>
       \/ /\ Expect(p, "rt_prompt", Prompt, "rt_loop")
          /\ tidx' = [tidx EXCEPT ![p] = @ + 1]
    /\ UNCHANGED <<Host, Conf, coreN, report>>

\* runTests( vm, tests ): for test in tests: look it up, run it, eat a prompt
RunTests(p) ==
    /\ \/ /\ pc[p] = "rt_start"
          /\ Goto(p, "rt_loop")
          /\ tidx' = [tidx EXCEPT ![p] = 1]
          /\ UNCHANGED <<vm, con>>
       \/ /\ pc[p] = "rt_loop"
          /\ IF tidx[p] > Len(Requested(p)) THEN Goto(p, AfterTests(p))
             ELSE IF Requested(p)[tidx[p]] \notin Registry
             THEN Raise(p, "UnknownTest")
             ELSE Goto(p, EntryOf(Requested(p)[tidx[p]]))
          /\ UNCHANGED <<vm, con, tidx>>
       \/ /\ Expect(p, "rt_prompt", Prompt, "rt_loop")
          /\ tidx' = [tidx EXCEPT ![p] = @ + 1]
    /\ UNCHANGED <<Host, Conf, coreN, report>>

Outcome(test, n, res) == [test |-> test, n |-> n, res |-> res]

\* Mutant of TestExpect: pexpect.TIMEOUT is not in the list of patterns, so
\* the timeout of a test raises like that of any other expect.
TestExpect_Raising(p, l, test, n, pats, next) ==
    /\ pc[p] = l
    /\ \/ /\ vm[p] = "running"
          /\ clock[p] < WaitTimeout(l)
          /\ \E i \in 1 .. Len(pats) :
                /\ Logged(p, Matched(pats[i]))
                /\ report' = [report EXCEPT ![p] =
                      Append(@, Outcome(test, n,
                                        IF i = 1 THEN "OK" ELSE "FAILED"))]
          /\ Goto(p, next)
          /\ UNCHANGED vm
       \/ /\ clock[p] = WaitTimeout(l)
          /\ Raise(p, "TIMEOUT")
          /\ UNCHANGED <<con, vm, report>>
       \/ /\ Raise(p, "EOF")
          /\ vm' = [vm EXCEPT ![p] = "exited"]
          /\ UNCHANGED <<con, report>>

\* vm.expect( pats + [ pexpect.TIMEOUT ], timeout=T ) == 0 in a test: index 0
\* is logged as OK; any other pattern and the timeout are logged as FAILED.
\* The guest process ending raises EOF.
TestExpect(p, l, test, n, pats, next) ==
    /\ pc[p] = l
    /\ \/ /\ vm[p] = "running"
          /\ clock[p] < WaitTimeout(l)
          /\ \E i \in 1 .. Len(pats) :
                /\ Logged(p, Matched(pats[i]))
                /\ report' = [report EXCEPT ![p] =
                      Append(@, Outcome(test, n,
                                        IF i = 1 THEN "OK" ELSE "FAILED"))]
          /\ Goto(p, next)
          /\ UNCHANGED vm
       \/ /\ clock[p] = WaitTimeout(l)
          /\ Logged(p, TimedOut(pats[1]))
          /\ report' = [report EXCEPT ![p] =
                           Append(@, Outcome(test, n, "FAILED"))]
          /\ Goto(p, next)
          /\ UNCHANGED vm
       \/ /\ Raise(p, "EOF")
          /\ vm' = [vm EXCEPT ![p] = "exited"]
          /\ UNCHANGED <<con, report>>

\* sanityTest( vm )
SanityTest(p) ==
    /\ \/ /\ SendLine(p, "s_send", CmdSanity, "s_expect")
          /\ UNCHANGED report
       \/ TestExpect(p, "s_expect", "sanity", 0, <<" 0% dropped">>,
                     "rt_prompt")
    /\ UNCHANGED <<Host, Conf, tidx, coreN>>

\* Mutant of CoreTest: the loop is range( 0, 1 ), one result only.
CoreTest_OneResult(p) ==
    /\ \/ /\ \/ SendLine(p, "c_send1", CmdCgroupLite, "c_prompt1")
             \/ Expect(p, "c_prompt1", Prompt, "c_send2")
             \/ SendLine(p, "c_send2", CmdCgroupsMount, "c_prompt2")
             \/ Expect(p, "c_prompt2", Prompt, "c_send3")
          /\ UNCHANGED <<coreN, report>>
       \/ /\ SendLine(p, "c_send3", CmdMakeTest, "c_expect")
          /\ coreN' = [coreN EXCEPT ![p] = 0]
          /\ UNCHANGED report
       \/ /\ TestExpect(p, "c_expect", "core", coreN[p], <<"OK", "FAILED">>,
                        "rt_prompt")
          /\ coreN' = [coreN EXCEPT ![p] =
                          IF pc'[p] = "failed" THEN @ ELSE @ + 1]
    /\ UNCHANGED <<Host, Conf, tidx>>

\* coreTest( vm ): for test in range( 0, 2 ): one expect and one logged result
CoreTest(p) ==
    /\ \/ /\ \/ SendLine(p, "c_send1", CmdCgroupLite, "c_prompt1")
             \/ Expect(p, "c_prompt1", Prompt, "c_send2")
             \/ SendLine(p, "c_send2", CmdCgroupsMount, "c_prompt2")
             \/ Expect(p, "c_prompt2", Prompt, "c_send3")
          /\ UNCHANGED <<coreN, report>>
       \/ /\ SendLine(p, "c_send3", CmdMakeTest, "c_expect")
          /\ coreN' = [coreN EXCEPT ![p] = 0]
          /\ UNCHANGED report
       \/ /\ TestExpect(p, "c_expect", "core", coreN[p], <<"OK", "FAILED">>,
                        IF coreN[p] + 1 < 2 THEN "c_expect" ELSE "rt_prompt")
          /\ coreN' = [coreN EXCEPT ![p] =
                          IF pc'[p] = "failed" THEN @ ELSE @ + 1]
    /\ UNCHANGED <<Host, Conf, tidx>>

\* examplesquickTest( vm ): nothing is awaited after the runner is started
ExamplesQuickTest(p) ==
    /\ \/ SendLine(p, "eq_send1", CmdPexpect, "eq_prompt")
       \/ Expect(p, "eq_prompt", Prompt, "eq_send2")
       \/ SendLine(p, "eq_send2", CmdQuick, "rt_prompt")
    /\ UNCHANGED <<Host, Conf, tidx, coreN, report>>

\* examplesfullTest( vm )
ExamplesFullTest(p) ==
    /\ \/ SendLine(p, "ef_send1", CmdPexpect, "ef_prompt")
       \/ Expect(p, "ef_prompt", Prompt, "ef_send2")
       \/ SendLine(p, "ef_send2", CmdFull, "rt_prompt")
    /\ UNCHANGED <<Host, Conf, tidx, coreN, report>>

\* How a command of the branch update can end in the guest.  The shell
\* prints its prompt in both cases, and the script reads nothing else.
ExitStatus == {"ok", "failed"}

\* checkOutBranch( vm, branch ): git fetch, pull and checkout have ended,
\* well or not, when the prompt is back.
CheckOutBranch(p) ==
    /\ \/ /\ SendLine(p, "cb_send1", CmdCheckout, "cb_prompt")
          /\ UNCHANGED upd
       \/ /\ Expect(p, "cb_prompt", Prompt, "cb_send2")
          /\ \E status \in ExitStatus :
                upd' = [upd EXCEPT ![p] =
                           IF pc'[p] = "cb_send2" THEN status ELSE @]
       \/ /\ SendLine(p, "cb_send2", CmdMakeInstall, "t_prompt2")
          /\ UNCHANGED upd
    /\ UNCHANGED <<Host, tests, branch, tidx, coreN, report>>

----------------------------------------------------------------------------
(* build *)

\* Virtual capacities an overlay can have (that of its backing image), GB.
Capacities == {8, 16}

\* On-disk sizes the converted vmdk can have, GB.
FileSizes == {1, 8}

\* dir = 'mn-%s-%s' % ( flavor, date ), date to the second: the names two
\* builds of one flavor can get, in the same second or not.
DirNames == {"mn-flavor-t1", "mn-flavor-t2"}

\* build has made its directory: it is past os.mkdir and did not raise there.
Entered(p) ==
    /\ kind[p] = "build"
    /\ pc[p] # "b_mkdir"
    /\ ~(pc[p] = "failed" /\ errAt[p] = "b_mkdir")

\* The directory exists: the script makes it in build and never removes it.
Exists(d) == \E q \in Procs : Entered(q) /\ dir[q] = d

\* Mutant of B_Mkdir: a directory that exists is taken as it is (mkdir -p).
B_Mkdir_ExistOk(p) ==
    /\ pc[p] = "b_mkdir"
    /\ \/ Goto(p, "b_openlog")
       \/ Raise(p, "BuildDirFailed")
    /\ UNCHANGED <<drv, entry, seen, files, inst, nbdVars, dirs, guest, out>>

\* try: os.mkdir( dir ) except: raise Exception( "Failed to create build
\* directory" ).  mkdir fails when the directory exists, and it can fail
\* for other reasons (no permission, no space).
B_Mkdir(p) ==
    /\ pc[p] = "b_mkdir"
    /\ \/ ~Exists(dir[p]) /\ Goto(p, "b_openlog")
       \/ Raise(p, "BuildDirFailed")
    /\ UNCHANGED <<drv, entry, seen, files, inst, nbdVars, dirs, guest, out>>

\* os.chdir( dir ); LogFile = open( 'build.log', 'w' )
B_OpenLog(p) ==
    /\ pc[p] = "b_openlog"
    /\ Goto(p, "fbi_check")
    /\ work' = [work EXCEPT ![p] = @ \cup {"build.log"}]
    /\ UNCHANGED <<drv, entry, seen, files, inst, nbdVars, dirs, guest, cap, size,
                   desc>>

\* run( 'qemu-img create -f qcow2 -b %s %s' % ( image, volume ) )
B_Overlay(p) ==
    /\ pc[p] = "b_overlay"
    /\ \/ /\ Goto(p, "b_conlog")
          /\ work' = [work EXCEPT ![p] = @ \cup {"volume"}]
          /\ \E c \in Capacities : cap' = [cap EXCEPT ![p] = c]
       \/ /\ Raise(p, "SubprocessFailure")
          /\ UNCHANGED <<work, cap>>
    /\ UNCHANGED <<drv, entry, seen, files, inst, nbdVars, dirs, guest, size, desc>>

\* logfile = open( flavor + '.log', 'w+' )
B_ConLog(p) ==
    /\ pc[p] = "b_conlog"
    /\ Goto(p, "boot")
    /\ work' = [work EXCEPT ![p] = @ \cup {"console.log"}]
    /\ UNCHANGED <<drv, entry, seen, files, inst, nbdVars, dirs, guest, cap, size,
                   desc>>

\* What file(1) prints for a qcow2 overlay of virtual capacity c, in words:
\* "QEMU QCOW Image (v2), has backing file (path ...), <c> bytes".  A word
\* is its text, and its value when it is a number (-1 otherwise).
Word(text) == [text |-> text, num |-> -1]
Number(n) == [text |-> "digits", num |-> n]

FileOutput(c) ==
    <<Word("QEMU"), Word("QCOW"), Word("Image"), Word("(v2),"), Word("has"),
      Word("backing"), Word("file"), Word("(path"), Word("base.qcow2),"),
      Number(c), Word("bytes")>>

\* bytes = int( re.findall( '(\d+) bytes', output )[ 0 ] ): the first number
\* that is followed by the word bytes
qcow2size(output) ==
    LET hits == {k \in 1 .. (Len(output) - 1) :
                    output[k].num >= 0 /\ output[k + 1].text = "bytes"}
        first == CHOOSE k \in hits : \A j \in hits : k <= j
    IN  output[first].num

\* size = qcow2size( volume )
B_Size(p) ==
    /\ pc[p] = "b_size"
    /\ \/ /\ Goto(p, "b_convert")
          /\ size' = [size EXCEPT ![p] = qcow2size(FileOutput(cap[p]))]
       \/ /\ Raise(p, "SubprocessFailure")
          /\ UNCHANGED size
    /\ UNCHANGED <<drv, entry, seen, files, inst, nbdVars, dirs, guest, work, cap,
                   desc>>

\* vmdk = convert( volume, basename='mininet-vm' )
B_Convert(p) ==
    /\ pc[p] = "b_convert"
    /\ \/ /\ Goto(p, "b_remove")
          /\ work' = [work EXCEPT ![p] = @ \cup {"vmdk"}]
       \/ /\ Raise(p, "SubprocessFailure")
          /\ UNCHANGED work
    /\ UNCHANGED <<drv, entry, seen, files, inst, nbdVars, dirs, guest, cap, size,
                   desc>>

\* if not SaveQCOW2: os.remove( volume )
B_Remove(p) ==
    /\ pc[p] = "b_remove"
    /\ Goto(p, "b_ovf")
    /\ \E SaveQCOW2 \in BOOLEAN :
          work' = [work EXCEPT ![p] =
                      IF SaveQCOW2 THEN @ ELSE @ \ {"volume"}]
    /\ UNCHANGED <<drv, entry, seen, files, inst, nbdVars, dirs, guest, cap, size,
                   desc>>

\* Mutant of B_OVF: filesize and disksize are given to the template in the
\* other order.
B_OVF_Swapped(p) ==
    /\ pc[p] = "b_ovf"
    /\ Goto(p, "b_zip")
    /\ \E filesize \in FileSizes :
          desc' = [desc EXCEPT ![p] = <<size[p], filesize>>]
    /\ work' = [work EXCEPT ![p] = @ \cup {"ovf"}]
    /\ UNCHANGED <<drv, entry, seen, files, inst, nbdVars, dirs, guest, cap, size>>

\* The fields of the descriptor: <File ovf:size> and <Disk ovf:capacity>.
OvfFileSize(d) == d[1]
OvfCapacity(d) == d[2]

\* ovf = generateOVF( diskname=vmdk, disksize=size, name=ovfname ):
\* filesize = stat( diskname )[ ST_SIZE ] and disksize go to the template
B_OVF(p) ==
    /\ pc[p] = "b_ovf"
    /\ Goto(p, "b_zip")
    /\ \E filesize \in FileSizes :
          desc' = [desc EXCEPT ![p] = <<filesize, size[p]>>]
    /\ work' = [work EXCEPT ![p] = @ \cup {"ovf"}]
    /\ UNCHANGED <<drv, entry, seen, files, inst, nbdVars, dirs, guest, cap, size>>

\* if Zip: run( 'zip %s-ovf.zip %s %s' % ( ovfname, ovf, vmdk ) )
B_Zip(p) ==
    /\ pc[p] = "b_zip"
    /\ \E Zip \in BOOLEAN :
          \/ /\ Goto(p, "done")
             /\ work' = [work EXCEPT ![p] =
                            IF Zip THEN @ \cup {"zip"} ELSE @]
          \/ /\ Zip
             /\ Raise(p, "SubprocessFailure")
             /\ UNCHANGED work
    /\ UNCHANGED <<drv, entry, seen, files, inst, nbdVars, dirs, guest, cap, size,
                   desc>>

----------------------------------------------------------------------------
(* bootAndRunTests *)

\* tmpdir = mkdtemp( prefix='test-' + basename )
T_Mkdtemp(p) ==
    /\ pc[p] = "t_mkdtemp"
    /\ Goto(p, "t_overlay")
    /\ tmp' = [tmp EXCEPT ![p] = @ \cup {"test_tmp"}]
    /\ UNCHANGED <<drv, entry, seen, files, inst, nbdVars, mounted, guest, out>>

\* run( 'qemu-img create -f qcow2 -b %s %s' % ( image, cow ) ), then
\* extractKernel( image, flavor=basename, imageDir=tmpdir )
T_Overlay(p) ==
    /\ pc[p] = "t_overlay"
    /\ \/ Goto(p, "ek_check")
       \/ Raise(p, "SubprocessFailure")
    /\ UNCHANGED <<drv, entry, seen, files, inst, nbdVars, dirs, guest, out>>

\* logfile = NamedTemporaryFile( prefix=basename, suffix='.testlog',
\*                               delete=False )
T_OpenLog(p) ==
    /\ pc[p] = "t_openlog"
    /\ Goto(p, "boot")
    /\ work' = [work EXCEPT ![p] = @ \cup {"testlog"}]
    /\ UNCHANGED <<drv, entry, seen, files, inst, nbdVars, dirs, guest, cap, size,
                   desc>>

\* Longest list of -t tests followed.
MaxTests == 2

TestNames == Registry \cup {"bogus"}

\* What args.test can be: lists of names given with -t, known or not.
TestLists == UNION { [1 .. n -> TestNames] : n \in 0 .. MaxTests }

\* bootAndRunTests after login( vm ): vm.expect( prompt ); if Branch:
\* checkOutBranch( vm, branch=Branch ); vm.expect( prompt );
\* vm.expect( prompt ); runTests( vm, tests=tests ).  The global Branch and
\* the argument tests are inputs of the run, drawn where they are first read.
\* When the prompt after 'sudo make install' is back the reinstall has
\* ended, well or not; the update is good when both of its commands were.
T_Prompts(p) ==
    /\ \/ /\ \E b \in BOOLEAN :
                /\ branch' = [branch EXCEPT ![p] = b]
                /\ Expect(p, "t_prompt1", Prompt,
                          IF b THEN "cb_send1" ELSE "t_prompt3")
          /\ UNCHANGED <<tests, upd>>
       \/ /\ Expect(p, "t_prompt2", Prompt, "t_prompt3")
          /\ \E status \in ExitStatus :
                upd' = [upd EXCEPT ![p] =
                           IF pc'[p] = "t_prompt3" /\ @ = "ok" THEN status
                           ELSE @]
          /\ UNCHANGED <<tests, branch>>
       \/ /\ Expect(p, "t_prompt3", Prompt, "rt_start")
          /\ \E ts \in TestLists :
                tests' = [tests EXCEPT ![p] =
                             IF pc'[p] = "rt_start" THEN ts ELSE @]
          /\ UNCHANGED <<branch, upd>>
    /\ UNCHANGED <<Host, tidx, coreN, report>>

\* vm.sendline( 'sudo shutdown -h now ' ); vm.wait(), which returns when the
\* guest process has exited
T_Shutdown(p) ==
    /\ \/ SendLine(p, "t_shutdown", CmdShutdownTest, "t_wait")
       \/ /\ pc[p] = "t_wait"
          /\ Goto(p, "t_rm")
          /\ vm' = [vm EXCEPT ![p] = "exited"]
          /\ UNCHANGED con
    /\ UNCHANGED <<Host, Conf, tidx, coreN, report>>

\* srun( 'rm -rf ' + tmpdir )
T_Remove(p) ==
    /\ pc[p] = "t_rm"
    /\ \/ /\ Goto(p, "done")
          /\ tmp' = [tmp EXCEPT ![p] = @ \ {"test_tmp"}]
       \/ /\ Raise(p, "SubprocessFailure")
          /\ UNCHANGED tmp
    /\ UNCHANGED <<drv, entry, seen, files, inst, nbdVars, mounted, guest, out>>

----------------------------------------------------------------------------
(* One pipeline: build( flavor ) or bootAndRunTests( image, tests ) *)

\* The pipeline that runs; the other one never starts.
Runner == "p1"

PipeInit ==
    /\ InitCommon
    /\ DrvIdle
    /\ \E k \in {"build", "test"} :
          /\ kind = [p \in Procs |-> IF p = Runner THEN k ELSE "none"]
          /\ dir = [p \in Procs |->
                       IF p = Runner /\ k = "build" THEN "mn-flavor-t1"
                       ELSE "none"]
          /\ pc = [p \in Procs |->
                      IF p # Runner THEN "idle"
                      ELSE IF k = "build" THEN "b_mkdir" ELSE "t_mkdtemp"]
          /\ k = "test" => (image = "absent" /\ iso = "absent")
    /\ tests = [p \in Procs |-> <<>>]
    /\ branch = [p \in Procs |-> FALSE]

PipeStep(p) ==
    \/ B_Mkdir(p) \/ B_OpenLog(p) \/ B_Overlay(p) \/ B_ConLog(p)
    \/ Boot(p) \/ Login(p)
    \/ InteractInstall(p) \/ GetMininetVersion(p) \/ InteractShutdown(p)
    \/ RunTests(p) \/ SanityTest(p) \/ CoreTest(p)
    \/ ExamplesQuickTest(p) \/ ExamplesFullTest(p) \/ CheckOutBranch(p)
    \/ B_Size(p) \/ B_Convert(p) \/ B_Remove(p) \/ B_OVF(p) \/ B_Zip(p)
    \/ T_Mkdtemp(p) \/ T_Overlay(p) \/ T_OpenLog(p) \/ T_Prompts(p)
    \/ T_Shutdown(p) \/ T_Remove(p)

PipeNext ==
    \/ \E p \in Procs : StoreStep(p) \/ PipeStep(p) \/ TimePasses(p)
    \/ HostStep

PipeSpec == PipeInit /\ [][PipeNext]_vars

----------------------------------------------------------------------------
(* Two build( flavor ) calls started from one directory *)

\* Two scripts started in the same current directory each call build for
\* the same flavor, in the same second or not.  Each build is followed up
\* to the boot of its guest.
BuildsInit ==
    /\ InitCommon
    /\ DrvIdle
    /\ kind = [p \in Procs |-> "build"]
    /\ dir \in [Procs -> DirNames]
    /\ pc = [p \in Procs |-> "b_mkdir"]
    /\ tests = [p \in Procs |-> <<>>]
    /\ branch = [p \in Procs |-> FALSE]

BuildsStep(p) ==
    \/ B_Mkdir(p) \/ B_OpenLog(p) \/ StoreStep(p) \/ B_Overlay(p)
    \/ B_ConLog(p)

BuildsNext ==
    \/ \E p \in Procs : BuildsStep(p)
    \/ HostStep

BuildsSpec == BuildsInit /\ [][BuildsNext]_vars

----------------------------------------------------------------------------
(* parseArgs: the loops over the requested flavors and images *)

\* The keys of isoURLs
isoURLs ==
    {"precise32server", "precise64server", "quantal32server",
     "quantal64server", "raring32server", "raring64server", "saucy32server",
     "saucy64server"}

\* Longest lists of flavors and of -i images followed.
MaxFlavors == 2
MaxImages == 1

\* What can be asked for on the command line.
FlavorNames == {"raring32server", "saucy64server", "bogus"}
ImageNames == {"mininet-vm.qcow2"}

SeqsUpTo(S, n) == UNION { [1 .. k -> S] : k \in 0 .. n }

ArgSets ==
    [flavor : SeqsUpTo(FlavorNames, MaxFlavors),
     image : SeqsUpTo(ImageNames, MaxImages),
     list : BOOLEAN, depend : BOOLEAN, clean : BOOLEAN]

BuildCall(flavor) == [fn |-> "build", arg |-> flavor]
TestCall(img) == [fn |-> "bootAndRunTests", arg |-> img]
UnknownFlavor(flavor) == [text |-> "Unknown build flavor:", arg |-> flavor]
FlavorString == [text |-> "valid build flavors:", arg |-> "isoURLs"]
Help == [text |-> "usage:", arg |-> ""]

DrvRest ==
    <<pc, entry, err, errAt, clock, seen, files, inst, nbdVars, dirs, guest,
      out>>

\* if args.depend: depend() ... if args.zip: Zip = True.  depend() runs
\* apt-get with run, which raises when it fails; nothing catches it.
PA_Options ==
    /\ mpc = "options"
    /\ \/ /\ mpc' = "flavors"
          /\ floop' = 1
          /\ printed' = IF args.list THEN Append(printed, FlavorString)
                        ELSE printed
       \/ /\ args.depend
          /\ mpc' = "crashed"
          /\ UNCHANGED <<floop, printed>>
    /\ UNCHANGED <<args, iloop, calls, DrvRest>>

\* for flavor in args.flavor: if flavor not in isoURLs: print ...; break
\* build( flavor ).  build returns, or raises and ends the script (the
\* try / except around it is commented out).
PA_Flavors ==
    /\ mpc = "flavors"
    /\ IF floop > Len(args.flavor)
       THEN /\ mpc' = "images"
            /\ iloop' = 1
            /\ UNCHANGED <<floop, calls, printed>>
       ELSE IF args.flavor[floop] \notin isoURLs
       THEN /\ printed' = printed \o <<UnknownFlavor(args.flavor[floop]),
                                       FlavorString>>
            /\ mpc' = "images"
            /\ iloop' = 1
            /\ UNCHANGED <<floop, calls>>
       ELSE /\ calls' = Append(calls, BuildCall(args.flavor[floop]))
            /\ \/ mpc' = mpc /\ floop' = floop + 1
               \/ mpc' = "crashed" /\ floop' = floop
            /\ UNCHANGED <<iloop, printed>>
    /\ UNCHANGED <<args, DrvRest>>

\* for image in args.image: bootAndRunTests( image, tests=args.test )
PA_Images ==
    /\ mpc = "images"
    /\ IF iloop > Len(args.image)
       THEN /\ mpc' = "help"
            /\ UNCHANGED <<iloop, calls>>
       ELSE /\ calls' = Append(calls, TestCall(args.image[iloop]))
            /\ \/ mpc' = mpc /\ iloop' = iloop + 1
               \/ mpc' = "crashed" /\ iloop' = iloop
    /\ UNCHANGED <<args, floop, printed, DrvRest>>

\* if not ( args.depend or args.list or args.clean or args.flavor
\*          or args.image ): parser.print_help()
PA_Help ==
    /\ mpc = "help"
    /\ mpc' = "exit"
    /\ printed' =
          IF ~(args.depend \/ args.list \/ args.clean
               \/ args.flavor # <<>> \/ args.image # <<>>)
          THEN Append(printed, Help) ELSE printed
    /\ UNCHANGED <<args, floop, iloop, calls, DrvRest>>

ArgsInit ==
    /\ InitCommon
    /\ image = "absent" /\ iso = "absent"
    /\ holders = [i \in Slots |-> {}]
    /\ pc = [p \in Procs |-> "idle"]
    /\ kind = [p \in Procs |-> "none"]
    /\ dir = [p \in Procs |-> "none"]
    /\ tests = [p \in Procs |-> <<>>]
    /\ branch = [p \in Procs |-> FALSE]
    /\ args \in ArgSets
    /\ mpc = "options"
    /\ floop = 0
    /\ iloop = 0
    /\ calls = <<>>
    /\ printed = <<>>

ArgsNext == PA_Options \/ PA_Flavors \/ PA_Images \/ PA_Help

ArgsSpec == ArgsInit /\ [][ArgsNext]_vars

----------------------------------------------------------------------------
(* Properties of the image store and the block device bridge *)

Ended(p) == pc[p] \in {"done", "failed"}

\* The statements of findBaseImage's else branch: fetch, create, install.
BuildPath ==
    {"fbi_mkdir", "iso_check", "iso_curl", "iso_file", "iso_chmod",
     "fbi_create", "iu_floppy", "iu_mkdtemp", "iu_mount", "iu_popen",
     "iu_wait", "iu_umount", "iu_rmdir", "iu_result", "fbi_chmod"}

\* C1: of two findBaseImage calls that both found no base image, never both
\* have an installer running against the image file at the same time.
C1_NeverBothInstall ==
    \A p, q \in Procs :
        (p # q /\ seen[p] = "absent" /\ seen[q] = "absent")
            => ~(inst[p] = "running" /\ inst[q] = "running")

\* C2: findBaseImage returns the paths of the base image only when no
\* installer started on the image file is still running or has failed.
C2_ReturnsOnlyComplete ==
    \A p \in Procs :
        pc[p] = "fbi_return"
            => \A q \in Procs : inst[q] \notin {"running", "failed"}

\* C3: a findBaseImage call that found the base image present and not 0444
\* has raised the conflict error and has done nothing else: no installer,
\* no device, no directory, no mount, and it is at no later statement.
C3_WritableRaises ==
    \A p \in Procs :
        seen[p] = "writable"
            => /\ pc[p] = "failed"
               /\ err[p] = "ConcurrentBuildConflict"
               /\ errAt[p] = "fbi_check"
               /\ inst[p] = "none"
               /\ dev[p] = NoDev
               /\ tmp[p] = {}
               /\ mounted[p] = {}

C3_Witness ==
    \E p \in Procs : seen[p] = "writable" /\ pc[p] = "failed"

\* C4: a base image that is read-only stays read-only, and a findBaseImage
\* call that found it read-only never fetches media, creates an image or
\* starts an installer; when it returns the image is the read-only one.
C4_Reuse ==
    \A p \in Procs :
        seen[p] = "complete"
            => /\ pc[p] \notin BuildPath
               /\ inst[p] = "none"
               /\ image = ReadOnly

C4_CompleteStays == [][image = ReadOnly => image' = ReadOnly]_vars

C4_IdempotentReuse == []C4_Reuse /\ C4_CompleteStays

C4_Witness ==
    \E p \in Procs :
        /\ seen[p] = "complete"
        /\ pc[p] = "done"
        /\ \E q \in Procs : q # p /\ inst[q] = "ok"

\* C5: no /dev/nbdN slot is bound for two owners at once, two pipelines
\* never hold the same slot, and a detachNBD that completes leaves its slot
\* free for the next attachNBD.
C5_OneHolder ==
    /\ \A i \in Slots : Cardinality(holders[i]) <= 1
    /\ \A p, q \in Procs :
          (p # q /\ dev[p] # NoDev /\ dev[q] # NoDev) => dev[p] # dev[q]

C5_DetachFrees ==
    [][\A p \in Procs :
          (pc[p] = "ek_detach" /\ pc'[p] = AfterExtract(p))
              => holders'[dev[p]] = {}]_vars

C5_ExclusiveSlots == []C5_OneHolder /\ C5_DetachFrees

\* A pipeline holds a slot that another call has bound and detached before.
C5_Witness ==
    \E p \in Procs :
        /\ dev[p] # NoDev
        /\ dev[p] \in detached
        /\ holders[dev[p]] = {p}

\* C6: when extractKernel has ended, by return or by exception, the device
\* it bound is detached and its mount point is unmounted and removed.
C6_ReleasedOnExit ==
    \A p \in Procs :
        Ended(p) => /\ dev[p] = NoDev
                    /\ "part_mnt" \notin mounted[p]
                    /\ "part_mnt" \notin tmp[p]

----------------------------------------------------------------------------
(* Properties of one pipeline and its console session *)

SendsAt(c) == {k \in 1 .. Len(c) : c[k].t = "send"}

\* The number of the send at position k among the sends of transcript c.
Rank(c, k) == Cardinality({j \in SendsAt(c) : j <= k})

\* C7: a pipeline that failed because the login prompt did not show up
\* within the timeout has left nothing behind: no bound device, no
\* temporary directory, no mount, and it has sent nothing to the console.
C7_LoginTimeoutClean ==
    \A p \in Procs :
        (pc[p] = "failed" /\ err[p] = "TIMEOUT" /\ errAt[p] = "login_expect")
            => /\ dev[p] = NoDev
               /\ tmp[p] = {}
               /\ mounted[p] = {}
               /\ SendsAt(con[p]) = {}

\* C8: no blocking wait of a pipeline lasts longer than the longest
\* timeout the script sets (that of the install script, 3600 s).
C8_WaitsBounded ==
    \A p \in Procs :
        pc[p] \in ConsoleWaits \cup UnboundedWaits
            => clock[p] <= ScriptTimeout

\* C9: every send to the console comes after a match of the login prompt,
\* the first send is the user name, and every later send comes after a
\* match of the password prompt that itself came after the first send.
C9_LoginOrder ==
    \A p \in Procs :
        LET c == con[p]
            sends == SendsAt(c)
        IN  \A k \in sends :
                LET n == Cardinality({j \in sends : j <= k}) IN
                /\ \E j \in 1 .. (k - 1) : c[j] = Matched("login: ")
                /\ n <= 2 => c[k] = Sent("mininet")
                /\ n >= 2 =>
                      \E j \in 1 .. (k - 1) :
                          /\ c[j] = Matched("Password: ")
                          /\ \E i \in sends : i < j

C9_Witness ==
    \E p \in Procs :
        /\ Rank(con[p], Len(con[p])) = 2
        /\ pc[p] \in {"i_prompt1", "t_prompt1"}

\* The commands interact sends, in its order, and before each of them the
\* expectation that has to be matched last.
InteractSends ==
    <<"mininet", "mininet", CmdHostname, CmdWget, CmdInstall, "mininet",
      CmdVersion, CmdSanity, CmdCgroupLite, CmdCgroupsMount, CmdMakeTest,
      CmdShutdown>>

InteractAwaits ==
    <<"login: ", "Password: ", Prompt, Prompt, Prompt,
      "password for mininet: ", Prompt, Prompt, Prompt, Prompt, Prompt,
      Prompt>>

\* C10: in interact the n-th send is the n-th command of the fixed script
\* (login, shell prompt, install script, version, sanity, core, shutdown)
\* and directly follows the match of the expectation of the step before it;
\* the version is queried after the completion marker was matched, and the
\* shutdown command is sent after every requested test has logged its result.
C10_FixedOrder ==
    \A p \in Procs :
        kind[p] = "build" =>
            LET c == con[p] IN
            \A k \in SendsAt(c) :
                LET n == Rank(c, k) IN
                /\ n <= Len(InteractSends)
                /\ c[k].s = InteractSends[n]
                /\ k > 1
                /\ c[k - 1] = Matched(InteractAwaits[n])
                /\ c[k].s = CmdVersion =>
                      \E j \in 1 .. (k - 1) :
                          c[j] = Matched("Done preparing Mininet")
                /\ c[k].s = CmdShutdown =>
                      \A i \in 1 .. Len(Requested(p)) :
                          \E r \in 1 .. Len(report[p]) :
                              report[p][r].test = Requested(p)[i]

C10_Witness ==
    \E p \in Procs :
        /\ kind[p] = "build"
        /\ pc[p] = "i_read"
        /\ con[p][Len(con[p])] = Sent(CmdShutdown)

----------------------------------------------------------------------------
(* Properties of build and of the tests it runs *)

\* The statements of build after interact has returned.
Packaging == {"b_size", "b_convert", "b_remove", "b_ovf", "b_zip"}

Packaged(p) == "vmdk" \in work[p] \/ "ovf" \in work[p] \/ desc[p] # <<>>

\* The console session of p was closed cleanly: the shutdown command was
\* sent and nothing came after it but the end of the stream.
ClosedCleanly(p) ==
    LET c == con[p] IN
    /\ Len(c) >= 2
    /\ c[Len(c) - 1] = Sent(CmdShutdown)
    /\ c[Len(c)] = Matched("EOF")
    /\ vm[p] = "exited"

\* C11 as stated: once any expectation of a build has timed out, the disk
\* is never converted and no descriptor is written.
C11_AnyTimeoutAborts ==
    \A p \in Procs :
        (kind[p] = "build" /\ \E k \in 1 .. Len(con[p]) : con[p][k].t = "timeout")
            => (pc[p] \notin Packaging /\ ~Packaged(p))

\* C11 (amended): build converts the disk and writes the descriptor only
\* after the shutdown command was sent and the console reached end of
\* stream, and a build in which an expectation raised TIMEOUT or EOF has
\* ended there and has converted and described nothing.  (A timeout of the
\* result expectation of a test raises nothing.)
C11_OnlyAfterCleanClose ==
    \A p \in Procs :
        kind[p] = "build" =>
            /\ (pc[p] \in Packaging \/ Packaged(p)) => ClosedCleanly(p)
            /\ err[p] \in {"TIMEOUT", "EOF"} =>
                  (pc[p] = "failed" /\ ~Packaged(p) /\ size[p] = 0)

C11_Witness ==
    \E p \in Procs :
        /\ kind[p] = "build"
        /\ pc[p] = "done"
        /\ "vmdk" \in work[p]
        /\ desc[p] # <<>>

\* The expectations of sanityTest and coreTest that decide a test result.
ResultWaits == {"s_expect", "c_expect"}

\* C12: a sanity or core test that fails or times out is logged and raises
\* nothing: the only exception a result expectation raises is EOF (the guest
\* is gone), and the step that logs a result, OK or FAILED, goes on to the
\* next expectation of the protocol (the second core result, or the prompt
\* runTests eats before the next test or the shutdown command).
C12_NoRaise ==
    \A p \in Procs : errAt[p] \in ResultWaits => err[p] = "EOF"

C12_LoggedGoesOn ==
    [][\A p \in Procs :
          report'[p] # report[p]
              => /\ pc[p] \in ResultWaits
                 /\ Len(report'[p]) = Len(report[p]) + 1
                 /\ pc'[p] \in {"c_expect", "rt_prompt"}
                 /\ err'[p] = "none"]_vars

C12_TestFailureGoesOn == []C12_NoRaise /\ C12_LoggedGoesOn

\* A build has packaged the disk after a sanity test that timed out and a
\* core test that printed FAILED.
C12_Witness ==
    \E p \in Procs :
        /\ kind[p] = "build"
        /\ pc[p] = "done"
        /\ "vmdk" \in work[p] /\ "ovf" \in work[p]
        /\ TimedOut(" 0% dropped") \in {con[p][k] : k \in 1 .. Len(con[p])}
        /\ Matched("FAILED") \in {con[p][k] : k \in 1 .. Len(con[p])}
        /\ Sent(CmdShutdown) \in {con[p][k] : k \in 1 .. Len(con[p])}

\* The results of coreTest among the results p has logged, in their order.
CoreResults(p) == SelectSeq(report[p], LAMBDA o : o.test = "core")

\* How often p has started make test.
CoreRuns(p) ==
    Cardinality({k \in 1 .. Len(con[p]) : con[p][k] = Sent(CmdMakeTest)})

\* p is inside the loop of coreTest, or has raised out of it.
InCoreLoop(p) ==
    pc[p] = "c_expect" \/ (pc[p] = "failed" /\ errAt[p] = "c_expect")

\* C13: every run of coreTest that returns has logged exactly two results,
\* the one of test 0 and then the one of test 1, each of them OK or FAILED
\* (a timeout is logged as FAILED); inside the loop the results logged so
\* far are those of the tests before the current one.
C13_TwoOrderedResults ==
    \A p \in Procs :
        LET c == CoreResults(p) IN
        /\ \A r \in 1 .. Len(c) :
              /\ c[r].n = (r - 1) % 2
              /\ c[r].res \in {"OK", "FAILED"}
        /\ InCoreLoop(p) =>
              (coreN[p] \in {0, 1} /\ Len(c) = 2 * (CoreRuns(p) - 1) + coreN[p])
        /\ ~InCoreLoop(p) => Len(c) = 2 * CoreRuns(p)

\* coreTest has returned after test 0 timed out and test 1 printed OK.
C13_Witness ==
    \E p \in Procs :
        /\ pc[p] = "rt_prompt"
        /\ Len(CoreResults(p)) = 2
        /\ CoreResults(p)[1].res = "FAILED"
        /\ CoreResults(p)[2].res = "OK"
        /\ TimedOut("OK") \in {con[p][k] : k \in 1 .. Len(con[p])}

\* C14: while the base image is complete (write-protected 0444), nothing a
\* pipeline started writes to it: no installer runs on the image file.
C14_BaseNeverWritten ==
    image = ReadOnly => \A p \in Procs : inst[p] # "running"

\* C15: the capacity in the descriptor build writes is the virtual capacity
\* of the overlay disk, whatever the size of the converted file, and the
\* size of the converted file is what the file-size field holds.
C15_CapacityIsVirtualSize ==
    \A p \in Procs :
        desc[p] # <<>>
            => /\ OvfCapacity(desc[p]) = cap[p]
               /\ cap[p] \in Capacities
               /\ OvfFileSize(desc[p]) \in FileSizes

\* A descriptor of a sparse artifact: the file is smaller than the capacity.
C15_Witness ==
    \E p \in Procs :
        /\ desc[p] # <<>>
        /\ OvfCapacity(desc[p]) = 16
        /\ OvfFileSize(desc[p]) = 1

----------------------------------------------------------------------------
(* Properties of attachNBD and findiso *)

\* The probe of slot i reports it in use.
InUse(i) == holders[i] # {}

\* C16: attachNBD looks at the slots in ascending order from slot 0: its
\* loop variable moves on by one, and only past a slot the probe reports in
\* use; a slot not reported in use ends the scan; the slot it binds is the
\* one the scan ended at (so every lower slot was reported in use), bound
\* for this call alone; and a call that scans holds no device yet, so it
\* binds at most one.
C16_ScanInvariant ==
    \A p \in Procs :
        /\ Scanning(p) => (dev[p] = NoDev /\ scan[p] \in 0 .. NumNBD)
        /\ pc[p] \in {"nbd_modprobe", "nbd_bind"} => scan[p] \in Slots

C16_ScanSteps ==
    [][\A p \in Procs :
          /\ (pc[p] = "nbd_probe" /\ pc'[p] # pc[p] /\ scan[p] \in Slots)
                => (~InUse(scan[p]) /\ pc'[p] = "nbd_modprobe"
                    /\ scan'[p] = scan[p])
          /\ (pc[p] = "nbd_probe" /\ scan[p] \in Slots /\ InUse(scan[p])
               /\ <<pc'[p], scan'[p], err'[p]>> # <<pc[p], scan[p], err[p]>>)
                => (pc'[p] = "nbd_probe" /\ scan'[p] = scan[p] + 1)
          /\ scan'[p] # scan[p]
                => \/ scan'[p] = 0 /\ pc'[p] \in {"nbd_probe", "fbi_check"}
                   \/ /\ pc[p] = "nbd_probe" /\ InUse(scan[p])
                      /\ scan'[p] = scan[p] + 1
          /\ (dev'[p] # dev[p] /\ dev'[p] # NoDev)
                => /\ pc[p] = "nbd_bind" /\ pc'[p] = "ek_partx"
                   /\ dev[p] = NoDev
                   /\ dev'[p] = scan[p]
                   /\ holders' = [holders EXCEPT ![scan[p]] = {p}]]_vars

C16_LowestFreeSlot == []C16_ScanInvariant /\ C16_ScanSteps

\* attachNBD has returned slot 1 after it found slot 0 in use.
C16_Witness ==
    \E p \in Procs :
        /\ pc[p] = "ek_partx"
        /\ dev[p] = 1
        /\ InUse(0)
        /\ holders[1] = {p}

\* C17: an attachNBD call whose scan found every slot in use raises the
\* no-device error at the end of the loop and binds nothing: the step that
\* raises leaves every binding as it was, and the call holds no device.
\* The error is raised there and nowhere else.  (That a later call gets a
\* device once a slot is released is the state C17_Witness describes.)
C17_RefusedHoldsNothing ==
    \A p \in Procs :
        /\ Refused(p) => (errAt[p] = "nbd_probe" /\ scan[p] = NumNBD
                          /\ dev[p] = NoDev)
        /\ (pc[p] = "failed" /\ errAt[p] = "nbd_probe") => Refused(p)

C17_RefusalStep ==
    [][\A p \in Procs :
          (pc[p] = "nbd_probe" /\ scan[p] = NumNBD /\ pc'[p] # pc[p])
              => /\ pc'[p] = "failed"
                 /\ err'[p] = "NoDeviceAvailable"
                 /\ holders' = holders
                 /\ dev' = dev]_vars

C17_ExhaustionRaises == []C17_RefusedHoldsNothing /\ C17_RefusalStep

\* A call has bound a device after another call had found every slot in
\* use: one of the slots was released in between.
C17_Witness ==
    /\ retry
    /\ \E p \in Procs :
          /\ pc[p] = "ek_partx"
          /\ holders[dev[p]] = {p}
          /\ \E q \in Procs : Refused(q)

\* The statements of findiso.
InFindIso == {"iso_check", "iso_curl", "iso_file", "iso_chmod"}

\* C18: no file at the media path is write-protected 0444 unless it holds
\* an ISO image (so a call that finds it 0444 and skips the fetch uses valid
\* media); findiso returns only with such a file in place; and a download
\* that fails the check is removed and raises.
C18_MarkedOnlyIfMedia == iso = ReadOnly => isoGood

C18_ReturnsMedia ==
    \A p \in Procs :
        (pc[p] \in InFindIso /\ pc'[p] = "fbi_create")
            => (iso' = ReadOnly /\ isoGood')

C18_BadDownloadRemoved ==
    \A p \in Procs :
        (pc[p] = "iso_file" /\ pc'[p] # pc[p] /\ ~(iso # "absent" /\ isoGood))
            => (iso' = "absent" /\ pc'[p] = "failed"
                /\ err'[p] = "MediaFetchError")

C18_ValidMediaOnly ==
    /\ []C18_MarkedOnlyIfMedia
    /\ [][C18_ReturnsMedia /\ C18_BadDownloadRemoved]_vars

----------------------------------------------------------------------------
(* Properties of runTests and parseArgs *)

\* The first command of each test function.
FirstCmds == {CmdSanity, CmdCgroupLite, CmdPexpect}

\* How many tests p has started in the guest.
Started(p) ==
    Cardinality({k \in 1 .. Len(con[p]) :
                    con[p][k].t = "send" /\ con[p][k].s \in FirstCmds})

HasUnknown(p) ==
    \E i \in 1 .. Len(Requested(p)) : Requested(p)[i] \notin Registry

\* The statements of the test functions, and those after runTests.
InTest ==
    {"s_send", "s_expect", "c_send1", "c_prompt1", "c_send2", "c_prompt2",
     "c_send3", "c_expect", "eq_send1", "eq_prompt", "eq_send2", "ef_send1",
     "ef_prompt", "ef_send2", "rt_prompt"}

PastTests == {"t_shutdown", "t_wait", "t_rm", "i_shutdown", "i_read"}

\* C19 as stated: when the request holds a name that is not in the
\* registry, no test is started in the guest.
C19_UnknownRunsNothing ==
    \A p \in Procs : HasUnknown(p) => Started(p) = 0

\* C19 (amended): runTests raises the unknown-test error when its loop
\* comes to the first name that is not in the registry: the tests requested
\* before that name have been started, in the guest, and none after it;
\* a run whose request holds an unknown name never gets past runTests.
C19_UnknownIsFatal ==
    \A p \in Procs :
        /\ err[p] = "UnknownTest" =>
              /\ pc[p] = "failed" /\ errAt[p] = "rt_loop"
              /\ tidx[p] \in 1 .. Len(Requested(p))
              /\ Requested(p)[tidx[p]] \notin Registry
              /\ \A i \in 1 .. (tidx[p] - 1) : Requested(p)[i] \in Registry
              /\ Started(p) = tidx[p] - 1
        /\ pc[p] \in InTest =>
              /\ tidx[p] \in 1 .. Len(Requested(p))
              /\ \A i \in 1 .. tidx[p] : Requested(p)[i] \in Registry
        /\ pc[p] \in PastTests \cup {"done"} => ~HasUnknown(p)

\* runTests has raised at the second name after it ran the first test.
C19_Witness ==
    \E p \in Procs :
        /\ err[p] = "UnknownTest"
        /\ tidx[p] = 2
        /\ Started(p) = 1

Called(c) == \E k \in 1 .. Len(calls) : calls[k] = c

\* C20: build is never called for a flavor that is not in isoURLs, the
\* unknown flavor and the list of valid flavors are printed, and when
\* parseArgs ends without an exception build has been called for every
\* valid flavor of the request and bootAndRunTests for every image.
C20_OthersStillProcessed ==
    /\ \A k \in 1 .. Len(calls) :
          calls[k].fn = "build" => calls[k].arg \in isoURLs
    /\ mpc = "exit" =>
          /\ \A i \in 1 .. Len(args.flavor) :
                IF args.flavor[i] \in isoURLs
                THEN Called(BuildCall(args.flavor[i]))
                ELSE \E k \in 1 .. Len(printed) :
                        printed[k] = UnknownFlavor(args.flavor[i])
          /\ \A i \in 1 .. Len(args.image) :
                Called(TestCall(args.image[i]))

----------------------------------------------------------------------------
(* Properties of bootAndRunTests *)

\* The console transcript of p holds the send of text.
HasSent(p, text) ==
    \E k \in 1 .. Len(con[p]) : con[p][k] = Sent(text)

\* With a branch override, both commands of the update were sent, and their
\* prompts were back, before runTests was entered.
UpdatedFirst(p) ==
    (branch[p] /\ (pc[p] \in InTest \cup PastTests \cup {"rt_start", "rt_loop"}
                   \/ Started(p) > 0))
        => /\ HasSent(p, CmdCheckout)
           /\ HasSent(p, CmdMakeInstall)
           /\ upd[p] # "none"

\* C21: with a branch override bootAndRunTests sends the checkout and the
\* reinstall before the first test, and after a checkout or reinstall that
\* failed in the guest no test is run.
C21_UpdateFailureSurfaced ==
    \A p \in Procs :
        kind[p] = "test" =>
            /\ UpdatedFirst(p)
            /\ upd[p] = "failed" => (Started(p) = 0 /\ pc[p] \notin InTest)

\* The statements at which the script waits for the shell prompt.
PromptWaits ==
    {"i_prompt1", "i_prompt2", "i_prompt3", "i_prompt4", "i_prompt5",
     "rt_prompt", "c_prompt1", "c_prompt2", "eq_prompt", "ef_prompt",
     "cb_prompt", "t_prompt1", "t_prompt2", "t_prompt3"}

\* The sends after which the guest prints a shell prompt: the password that
\* completes the login (the second send) and every command line.  The
\* answer to sudo's password prompt is no command, and after a shutdown
\* command the guest goes down.
Producers(c) ==
    {k \in SendsAt(c) :
        IF c[k].s = "mininet" THEN Rank(c, k) = 2
        ELSE c[k].s \notin {CmdShutdown, CmdShutdownTest}}

\* The prompts the script has waited for and got.
Consumed(c) == {k \in 1 .. Len(c) : c[k] = Matched(Prompt)}

\* The prompts that are printed, or will be, and that no wait has taken,
\* after the first n entries of transcript c.
Pending(c, n) ==
    Cardinality({k \in Producers(c) : k <= n})
        - Cardinality({k \in Consumed(c) : k <= n})

\* C22: a wait for the shell prompt starts only when exactly one prompt is
\* pending, and a command is sent only when none is: every prompt wait is
\* paired with one completed login or one command of its own.
C22_PromptsPaired ==
    \A p \in Procs :
        LET c == con[p] IN
        /\ pc[p] \in PromptWaits => Pending(c, Len(c)) = 1
        /\ \A k \in Producers(c) : Pending(c, k - 1) = 0

----------------------------------------------------------------------------
(* Properties of a failed install and of the cached kernel *)

\* installUbuntu of p has raised because the installer exited non-zero, and
\* p has made no call since.
InstallCrashed(p) == pc[p] = "failed" /\ err[p] = "InstallFailed"

C23_LeftWritable ==
    \A p \in Procs : InstallCrashed(p) => image = Writable

C23_LaterCallsRefused ==
    [][\A p, q \in Procs :
          (InstallCrashed(p) /\ pc[q] = "fbi_check" /\ pc'[q] # "fbi_check")
              => (pc'[q] = "failed" /\ err'[q] = "ConcurrentBuildConflict")]_vars

\* C23: after installUbuntu failed the base image is there and writable,
\* and every findBaseImage call that checks it afterwards raises the
\* conflict error instead of installing again or returning the image.
C23_CrashedInstallSticks == []C23_LeftWritable /\ C23_LaterCallsRefused

\* C24: extractKernel returns the cached paths, without attaching a
\* device, only when the kernel and the initrd are both in the cache and
\* both read-only, that is fully copied and write-protected.
C24_CachedIsComplete ==
    [][\A p \in Procs :
          (pc[p] = "ek_check" /\ pc'[p] = AfterExtract(p))
              => (kernel = ReadOnly /\ initrd = ReadOnly)]_vars

----------------------------------------------------------------------------
(* Properties of concurrent builds and of installUbuntu *)

\* build of p has ended at os.mkdir.
MkdirFailed(p) == pc[p] = "failed" /\ errAt[p] = "b_mkdir"

\* C25: two builds never work in the same directory, and a build whose
\* mkdir failed has raised the build directory error and has done nothing
\* else: it has opened no log, has not looked at the base image, has
\* started no installer, and has created no overlay.
C25_ExclusiveBuildDir ==
    /\ \A p, q \in Procs :
          (p # q /\ Entered(p) /\ Entered(q)) => dir[p] # dir[q]
    /\ \A p \in Procs :
          /\ work[p] # {} => Entered(p)
          /\ MkdirFailed(p) =>
                /\ err[p] = "BuildDirFailed"
                /\ work[p] = {}
                /\ seen[p] = "none"
                /\ inst[p] = "none"
                /\ dev[p] = NoDev
                /\ tmp[p] = {}

\* Two builds got the same name; one has its overlay, the other has failed
\* at mkdir.
C25_Witness ==
    \E p, q \in Procs :
        /\ p # q
        /\ dir[p] = dir[q]
        /\ MkdirFailed(p)
        /\ "volume" \in work[q]

\* The installer of p has exited and p is past the two clean-up commands
\* of installUbuntu.
PastCleanup(p) ==
    /\ inst[p] \in {"ok", "failed"}
    /\ pc[p] \notin {"iu_umount", "iu_rmdir"}
    /\ ~(pc[p] = "failed" /\ errAt[p] \in {"iu_umount", "iu_rmdir"})

C26_CleanedUp ==
    \A p \in Procs :
        /\ PastCleanup(p) =>
              ("iso_mnt" \notin mounted[p] /\ "iso_mnt" \notin tmp[p])
        /\ err[p] = "InstallFailed" => errAt[p] = "iu_result"
        /\ pc[p] = "fbi_chmod" => inst[p] = "ok"

C26_ExitThenCleanup ==
    [][\A p \in Procs :
          (pc[p] = "iu_wait" /\ pc'[p] # "iu_wait") => pc'[p] = "iu_umount"]_vars

\* C26: when the installer has exited, with status zero or not,
\* installUbuntu goes on to unmount the media and to remove the mount
\* directory, and it raises the installation error, or returns, only after
\* both are done.
C26_CleanupBeforeResult == []C26_CleanedUp /\ C26_ExitThenCleanup

\* The installer exited non-zero, and the error was raised with the media
\* unmounted and the directory removed.
C26_Witness ==
    \E p \in Procs :
        /\ InstallCrashed(p)
        /\ inst[p] = "failed"
        /\ "iso_mnt" \notin mounted[p]
        /\ "iso_mnt" \notin tmp[p]

====
